---- MODULE Spec2Model ----
(***************************************************************************)
(* The stack-based bytecode interpreter of clox (src/src/vm.c) as a state  *)
(* machine.  The VM singleton `vm` is the state; one action per opcode of  *)
(* run(), plus interpret().  The bytecode comes from the compiler, which   *)
(* is not part of vm.c: an instruction stream is modelled as a             *)
(* nondeterministic choice of the next opcode and of its operands, under   *)
(* the guards the compiler guarantees (operands are on the stack, slot     *)
(* operands name slots of the current frame, ...).                         *)
(*                                                                         *)
(* Stack addresses are positions 1..Len(stack): vm.stack is position 1 and *)
(* vm.stackTop is position Len(stack) + 1.  frameCount is Len(frames).     *)
(*                                                                         *)
(* The scanner (src/src/scanner.c) is a second state machine over the same *)
(* module: its state is the Scanner singleton and the last Token, and its  *)
(* one action is a scanToken() call (specification ScannerSpec).           *)
(***************************************************************************)
EXTENDS Integers, Sequences, FiniteSets, TLC

VARIABLES
  stack,         \* vm.stack[0 .. stackTop - stack)
  frames,        \* vm.frames[0 .. frameCount)
  openUpvalues,  \* vm.openUpvalues, the list threaded through ObjUpvalue.next
  upvalues,      \* every ObjUpvalue allocated so far: location and closed
  globals,       \* vm.globals
  classes,       \* every ObjClass allocated so far: its methods table
  instances,     \* every ObjInstance allocated so far: klass and fields
  session,       \* the kinds of the programs the host interprets, in order
  runs,          \* interpret() calls so far
  result,        \* what the host sees: the last InterpretResult, or RUNNING
  message,       \* what runtimeError wrote to stderr during the last interpret()
  trace,         \* the frame->ip runtimeError read for each stack-trace line
  unrooted,      \* objects in use that a collection at an allocation would free
  source,        \* the string handed to initScanner, without its final NUL
  scanner,       \* the Scanner singleton: start, current, line
  token,         \* the Token the last scanToken() returned
  calls          \* scanToken() calls so far

vmVars == <<stack, frames, openUpvalues, upvalues, globals, classes, instances,
            session, runs, result, message, trace,
            unrooted>>

scannerVars == <<source, scanner, token, calls>>

vars == <<vmVars, scannerVars>>

----------------------------------------------------------------------------
(* Bounds of the model. *)

\* vm.frames has FRAMES_MAX entries (scaled down).
FRAMES_MAX == 2

\* Value slots the stack provides per frame (UINT8_COUNT, scaled down).
SlotsPerFrame == 2

\* A frame's window never holds more than this many temporaries above its
\* SlotsPerFrame locals.
MaxTemps == 1

\* Heap objects allocated over the VM's life.
MaxUpvalues == 2
MaxClasses == 2
MaxInstances == 1

\* Capacity of vm.stack.
STACK_MAX == FRAMES_MAX * SlotsPerFrame

MaxWindow == SlotsPerFrame + MaxTemps

----------------------------------------------------------------------------
(* Values. *)

NIL_VAL == [t |-> "nil"]
BOOL_VAL(b) == [t |-> "bool", b |-> b]
NUMBER_VAL(n) == [t |-> "number", n |-> n]
StringVal(s) == [t |-> "string", chars |-> s]
ClosureVal(fn, ups) == [t |-> "closure", function |-> fn, upvalues |-> ups]
ClassVal(id) == [t |-> "class", id |-> id]
InstanceVal(id) == [t |-> "instance", id |-> id]
BoundVal(recv, method) == [t |-> "bound_method", receiver |-> recv, method |-> method]
NativeVal(fn) == [t |-> "native", fn |-> fn]
FunctionVal(fn) == [t |-> "function", name |-> fn]
UpvalueObj(u) == [t |-> "upvalue", id |-> u]

\* A Value with the object tag whose pointer is no object: the bits an
\* out-of-range double-to-integer conversion leaves.
WildVal == [t |-> "wild"]

\* The marker of an empty table entry (tableGet returning false).
Absent == [t |-> "absent"]

IS_NIL(v) == v.t = "nil"
IS_BOOL(v) == v.t = "bool"
IS_NUMBER(v) == v.t = "number"
IS_STRING(v) == v.t = "string"
IS_CLOSURE(v) == v.t = "closure"
IS_CLASS(v) == v.t = "class"
IS_INSTANCE(v) == v.t = "instance"

isFalsey(v) == IS_NIL(v) \/ (IS_BOOL(v) /\ ~v.b)

\* The numbers and strings the modelled programs compute with.
Numbers == {0, 1}
Strings == {"", "a"}

\* The strings that concatenation may make of them.
Concatenations == Strings \cup {"aa"}

\* The functions the compiler produced: name, arity, upvalueCount.
FunctionNames == {"script", "f", "g", "h", "k"}
arity(fn) == IF fn = "h" THEN 1 ELSE 0
upvalueCount(fn) == IF fn \in {"f", "h"} THEN 1 ELSE 0

\* The programs explored, by the opcodes the compiler emitted for them, and
\* the functions in their constant tables.
ProgramKinds ==
  {"expressions", "closures", "reuse", "classes", "methods", "inheritance",
   "fields"}

\* The sessions explored: the programs the host hands to interpret(), one
\* after the other, on the same VM.
Sessions ==
  { <<"expressions", "expressions">>,
    <<"closures", "reuse">>,
    <<"classes", "methods">>,
    <<"inheritance">>,
    <<"fields">> }

Opcodes(kind) ==
  CASE kind = "expressions" ->
         {"CONSTANT", "NIL", "TRUE", "FALSE", "POP", "GET_LOCAL", "SET_LOCAL",
          "GET_GLOBAL", "CALL", "EQUAL", "GREATER", "LESS", "ADD", "SUBTRACT", "MULTIPLY", "DIVIDE",
          "NOT", "NEGATE", "PRINT", "JUMP", "JUMP_IF_FALSE", "LOOP", "RETURN"}
    [] kind = "closures" ->
         {"NIL", "POP", "DEFINE_GLOBAL", "SET_GLOBAL",
          "GET_UPVALUE", "SET_UPVALUE", "CLOSURE", "CLOSE_UPVALUE",
          "CALL", "RETURN"}
    [] kind = "reuse" ->
         {"NIL", "POP", "GET_GLOBAL", "GET_UPVALUE", "SET_UPVALUE", "CALL",
          "RETURN"}
    [] kind = "classes" ->
         {"POP", "GET_GLOBAL", "DEFINE_GLOBAL", "CLASS", "CLOSURE", "METHOD",
          "INHERIT", "RETURN"}
    [] kind = "methods" ->
         {"POP", "GET_LOCAL", "GET_GLOBAL", "CLASS", "GET_PROPERTY",
          "SET_PROPERTY", "GET_SUPER", "CALL", "INVOKE", "SUPER_INVOKE", "RETURN"}
    [] kind = "inheritance" ->
         {"POP", "GET_GLOBAL", "DEFINE_GLOBAL", "CLASS", "CLOSURE", "METHOD",
          "INHERIT", "RETURN"}
    [] kind = "fields" ->
         {"POP", "GET_GLOBAL", "DEFINE_GLOBAL", "CLASS", "CLOSURE", "CALL",
          "GET_PROPERTY", "SET_PROPERTY", "INVOKE", "RETURN"}
    [] OTHER -> {}

GlobalsOf(kind) == IF kind = "expressions" THEN {"clock"} ELSE {"a"}

FunctionsOf(kind) ==
  CASE kind = "closures" -> {"f", "h"}
    [] kind = "classes" -> {"g"}
    [] kind = "inheritance" -> {"g", "k"}
    [] kind = "fields" -> {"g"}
    [] OTHER -> {}

\* Names used as operands.
GlobalNames == {"a", "clock"}
NativeNames == {"clock", "exit", "gc", "gcHeapSize"}
PropertyNames == {"init", "m"}
ArgCounts == {0, 1}

----------------------------------------------------------------------------
(* The VM as a record, for the helpers that the handlers call in sequence. *)

VM == [stack |-> stack, frames |-> frames, openUpvalues |-> openUpvalues,
       upvalues |-> upvalues, globals |-> globals, classes |-> classes,
       instances |-> instances, result |-> result, message |-> message,
       trace |-> trace, unrooted |-> unrooted, held |-> {}]

Commit(m) ==
  /\ stack' = m.stack
  /\ frames' = m.frames
  /\ openUpvalues' = m.openUpvalues
  /\ upvalues' = m.upvalues
  /\ globals' = m.globals
  /\ classes' = m.classes
  /\ instances' = m.instances
  /\ result' = m.result
  /\ message' = m.message
  /\ trace' = m.trace
  /\ unrooted' = m.unrooted
  /\ UNCHANGED scannerVars

stackTop(m) == Len(m.stack) + 1
frameCount(m) == Len(m.frames)

\* LOAD_FRAME: the current frame and its slots.
frame(m) == m.frames[Len(m.frames)]
stackStart(m) == frame(m).slots

\* Number of slots of the current frame's window, slot 0 included.
window(m) == stackTop(m) - stackStart(m)

\* A resetStack that forgets the frames.
resetStackKeepingFrames(m) == [m EXCEPT !.stack = <<>>, !.openUpvalues = <<>>]

resetStack(m) ==
  [m EXCEPT !.stack = <<>>, !.frames = <<>>, !.openUpvalues = <<>>]

\* The ip of a frame is kept relative to where the frame is executing:
\* frame->ip is "current" when it equals the frame's point of execution (the
\* cached ip while the frame runs, the instruction after its call while it is
\* suspended), "stale" when the cached ip has moved on since it was stored.

\* READ_BYTE fetching the opcode: the cached ip moves past frame->ip.
READ_BYTE(m) == [m EXCEPT !.frames[Len(m.frames)].ip = "stale"]

\* frame->ip = ip.
STORE_FRAME(m) == [m EXCEPT !.frames[Len(m.frames)].ip = "current"]

\* The message, then one stack-trace line per frame from the innermost one,
\* each for the instruction before that frame's frame->ip; then resetStack.
runtimeError(m, msg) ==
  [resetStack(m) EXCEPT
     !.message = msg,
     !.trace = [i \in 1..Len(m.frames) |-> m.frames[Len(m.frames) + 1 - i].ip]]

\* A handler's "return INTERPRET_RUNTIME_ERROR" after runtimeError.
ReturnRuntimeError(m) == [m EXCEPT !.result = "INTERPRET_RUNTIME_ERROR"]

push(m, v) == [m EXCEPT !.stack = Append(@, v)]
pop(m) == [m EXCEPT !.stack = SubSeq(@, 1, Len(@) - 1)]
drop(m, n) == [m EXCEPT !.stack = SubSeq(@, 1, Len(@) - n)]
peek(m, distance) == m.stack[Len(m.stack) - distance]

\* A call whose frame starts above the callee.
callSlotsAboveCallee(m, closure, argCount) ==
  IF argCount # arity(closure.function)
    THEN [ok |-> FALSE, vm |-> runtimeError(m, "Expected arguments.")]
  ELSE IF frameCount(m) = FRAMES_MAX
    THEN [ok |-> FALSE, vm |-> runtimeError(m, "Stack overflow.")]
  ELSE [ok |-> TRUE,
        vm |-> [m EXCEPT !.frames =
                  Append(@, [closure |-> closure,
                             ip |-> "current",
                             slots |-> stackTop(m) - argCount])]]

\* A call that never looks at frameCount.
callUnchecked(m, closure, argCount) ==
  IF argCount # arity(closure.function)
    THEN [ok |-> FALSE, vm |-> runtimeError(m, "Expected arguments.")]
    ELSE [ok |-> TRUE,
          vm |-> [m EXCEPT !.frames =
                    Append(@, [closure |-> closure,
                               ip |-> "current",
                               slots |-> stackTop(m) - argCount - 1])]]

call(m, closure, argCount) ==
  IF argCount # arity(closure.function)
    THEN [ok |-> FALSE, vm |-> runtimeError(m, "Expected arguments.")]
  ELSE IF frameCount(m) = FRAMES_MAX
    THEN [ok |-> FALSE, vm |-> runtimeError(m, "Stack overflow.")]
  ELSE [ok |-> TRUE,
        vm |-> [m EXCEPT !.frames =
                  Append(@, [closure |-> closure,
                             ip |-> "current",
                             slots |-> stackTop(m) - argCount - 1])]]

----------------------------------------------------------------------------
(* Allocation and the collector's roots (memory.c is not part of vm.c:     *)
(* modelled from its contract).                                            *)

\* markRoots: the value stack, the frames' closures, the open upvalues and
\* the globals.
markRoots(m) ==
  ({m.stack[i] : i \in 1..Len(m.stack)}
     \cup {m.frames[i].closure : i \in 1..Len(m.frames)}
     \cup {UpvalueObj(m.openUpvalues[i]) : i \in 1..Len(m.openUpvalues)}
     \cup {m.globals[n] : n \in DOMAIN m.globals}) \ {Absent}

\* blackenObject: the references an object holds.
blackenObject(m, o) ==
  CASE o.t = "closure" ->
         {FunctionVal(o.function)}
           \cup {UpvalueObj(o.upvalues[k]) : k \in 1..Len(o.upvalues)}
    [] o.t = "upvalue" ->
         IF m.upvalues[o.id].location = 0 THEN {m.upvalues[o.id].closed} ELSE {}
    [] o.t = "function" ->
         {FunctionVal(fn) : fn \in FunctionNames \ {"script"}}
           \cup {StringVal(chars) : chars \in Strings}
    [] o.t = "class" ->
         {m.classes[o.id].methods[n] : n \in DOMAIN m.classes[o.id].methods}
           \ {Absent}
    [] o.t = "instance" ->
         ({ClassVal(m.instances[o.id].klass)}
            \cup {m.instances[o.id].fields[n] : n \in DOMAIN m.instances[o.id].fields})
           \ {Absent}
    [] o.t = "bound_method" -> {o.receiver, o.method}
    [] OTHER -> {}

\* traceReferences: everything a collection keeps, starting from `gray`.
RECURSIVE traceReferences(_, _)
traceReferences(m, gray) ==
  LET marked == gray \cup UNION {blackenObject(m, o) : o \in gray}
  IN IF marked = gray THEN gray ELSE traceReferences(m, marked)

\* An allocation (reallocate may call collectGarbage) made while the C code
\* holds references to `inUse` that it uses afterwards: the ones a
\* collection would free are recorded.
Allocating(m, inUse) ==
  IF inUse \subseteq markRoots(m)
    THEN m  \* all of them are roots: the collection frees none
    ELSE [m EXCEPT !.unrooted =
            @ \cup (inUse \ traceReferences(m, markRoots(m)))]

----------------------------------------------------------------------------
(* Upvalues. *)

location(m, u) == m.upvalues[u].location
IsClosed(m, u) == location(m, u) = 0

\* A walk that stops at the head of the list.
captureWalkStopsAtHead(m, i, local) == i

\* The loop of captureUpvalue: the first position of the open list whose
\* upvalue is not above `local`.
RECURSIVE captureWalk(_, _, _)
captureWalk(m, i, local) ==
  IF i <= Len(m.openUpvalues) /\ location(m, m.openUpvalues[i]) > local
    THEN captureWalk(m, i + 1, local)
    ELSE i

InsertAt(s, i, e) == SubSeq(s, 1, i - 1) \o <<e>> \o SubSeq(s, i, Len(s))

\* A captureUpvalue that never reuses an open upvalue.
captureUpvalueAlwaysCreates(m, local) ==
  LET i == captureWalk(m, 1, local)
      created == Len(m.upvalues) + 1
  IN [upvalue |-> created,
      vm |-> [Allocating(m, m.held) EXCEPT
                !.upvalues = Append(@, [location |-> local, closed |-> NIL_VAL]),
                !.openUpvalues = InsertAt(@, i, created)]]

captureUpvalue(m, local) ==
  LET i == captureWalk(m, 1, local)
      created == Len(m.upvalues) + 1
  IN IF i <= Len(m.openUpvalues) /\ location(m, m.openUpvalues[i]) = local
       THEN [upvalue |-> m.openUpvalues[i], vm |-> m]
       ELSE [upvalue |-> created,
             vm |-> [Allocating(m, m.held) EXCEPT  \* newUpvalue(local)
                       !.upvalues = Append(@, [location |-> local, closed |-> NIL_VAL]),
                       !.openUpvalues = InsertAt(@, i, created)]]

\* A closeUpvalues that spares the upvalue of slot `last` itself.
RECURSIVE closeUpvaluesAbove(_, _)
closeUpvaluesAbove(m, last) ==
  IF m.openUpvalues # <<>> /\ location(m, Head(m.openUpvalues)) > last
    THEN LET u == Head(m.openUpvalues)
         IN closeUpvaluesAbove(
              [m EXCEPT !.upvalues[u] = [location |-> 0,
                                         closed |-> m.stack[location(m, u)]],
                        !.openUpvalues = Tail(@)],
              last)
    ELSE m

\* A closeUpvalues that retargets location without copying the slot.
RECURSIVE closeUpvaluesWithoutCopy(_, _)
closeUpvaluesWithoutCopy(m, last) ==
  IF m.openUpvalues # <<>> /\ location(m, Head(m.openUpvalues)) >= last
    THEN LET u == Head(m.openUpvalues)
         IN closeUpvaluesWithoutCopy(
              [m EXCEPT !.upvalues[u] = [location |-> 0,
                                         closed |-> m.upvalues[u].closed],
                        !.openUpvalues = Tail(@)],
              last)
    ELSE m

RECURSIVE closeUpvalues(_, _)
closeUpvalues(m, last) ==
  IF m.openUpvalues # <<>> /\ location(m, Head(m.openUpvalues)) >= last
    THEN LET u == Head(m.openUpvalues)
         IN closeUpvalues(
              [m EXCEPT !.upvalues[u] = [location |-> 0,
                                         closed |-> m.stack[location(m, u)]],
                        !.openUpvalues = Tail(@)],
              last)
    ELSE m

----------------------------------------------------------------------------
(* Tables (table.c is not part of vm.c: modelled from its contract). *)

tableGet(table, key) == table[key]

\* tableSet returns true when the key is new.
tableSet(table, key, value) ==
  [isNewKey |-> table[key] = Absent, table |-> [table EXCEPT ![key] = value]]

tableDelete(table, key) == [table EXCEPT ![key] = Absent]

tableAddAll(from, to) ==
  [k \in DOMAIN to |-> IF from[k] # Absent THEN from[k] ELSE to[k]]

EmptyTable(keys) == [k \in keys |-> Absent]

----------------------------------------------------------------------------
(* Opcode handlers of run(): each maps the VM before the opcode to the VM  *)
(* after it.                                                               *)

OP_CONSTANT(m, constant) == push(m, constant)
OP_NIL(m) == push(m, NIL_VAL)
OP_TRUE(m) == push(m, BOOL_VAL(TRUE))
OP_FALSE(m) == push(m, BOOL_VAL(FALSE))
OP_POP(m) == drop(m, 1)

OP_GET_LOCAL(m, slot) == push(m, m.stack[stackStart(m) + slot])

OP_SET_LOCAL(m, slot) == [m EXCEPT !.stack[stackStart(m) + slot] = peek(m, 0)]

OP_GET_GLOBAL(m, name) ==
  LET value == tableGet(m.globals, name)
  IN IF value = Absent
       THEN ReturnRuntimeError(runtimeError(STORE_FRAME(m), "Undefined variable."))
       ELSE push(m, value)

\* A DEFINE_GLOBAL that leaves the value on the stack.
OP_DEFINE_GLOBAL_WithoutDrop(m, name) ==
  [m EXCEPT !.globals = tableSet(@, name, peek(m, 0)).table]

OP_DEFINE_GLOBAL(m, name) ==
  drop([m EXCEPT !.globals = tableSet(@, name, peek(m, 0)).table], 1)

\* A SET_GLOBAL that leaves the entry it has just inserted.
OP_SET_GLOBAL_WithoutDelete(m, name) ==
  LET set == tableSet(m.globals, name, peek(m, 0))
  IN IF set.isNewKey
       THEN ReturnRuntimeError(
              runtimeError(STORE_FRAME([m EXCEPT !.globals = set.table]),
                           "Undefined variable."))
       ELSE [m EXCEPT !.globals = set.table]

OP_SET_GLOBAL(m, name) ==
  LET set == tableSet(m.globals, name, peek(m, 0))
  IN IF set.isNewKey
       THEN ReturnRuntimeError(
              runtimeError(
                STORE_FRAME([m EXCEPT !.globals = tableDelete(set.table, name)]),
                "Undefined variable."))
       ELSE [m EXCEPT !.globals = set.table]

\* *upvalue->location.  `garbage` is what a read of a stack slot at or above
\* stackTop finds there.
Deref(m, u, garbage) ==
  IF IsClosed(m, u) THEN m.upvalues[u].closed
  ELSE IF location(m, u) < stackTop(m) THEN m.stack[location(m, u)]
  ELSE garbage

OP_GET_UPVALUE(m, index, garbage) ==
  push(m, Deref(m, frame(m).closure.upvalues[index + 1], garbage))

OP_SET_UPVALUE(m, index) ==
  LET u == frame(m).closure.upvalues[index + 1]
  IN IF IsClosed(m, u) THEN [m EXCEPT !.upvalues[u].closed = peek(m, 0)]
     ELSE IF location(m, u) < stackTop(m)
       THEN [m EXCEPT !.stack[location(m, u)] = peek(m, 0)]
     ELSE m  \* the write lands in the dead part of vm.stack

\* valuesEqual.  Closures and bound methods are compared by identity:
\* `same` tells whether two that look alike are the same object.
valuesEqual(a, b, same) ==
  IF a.t # b.t THEN FALSE
  ELSE IF a.t \in {"closure", "bound_method"} THEN a = b /\ same
  ELSE a = b

OP_EQUAL(m, same) ==
  push(drop(m, 2), BOOL_VAL(valuesEqual(peek(m, 1), peek(m, 0), same)))

\* BINARY_OP(valueType, op); `value` is valueType(a op b).
BINARY_OP(m, value) ==
  IF ~IS_NUMBER(peek(m, 0)) \/ ~IS_NUMBER(peek(m, 1))
    THEN ReturnRuntimeError(runtimeError(STORE_FRAME(m), "Operands must be numbers."))
    ELSE push(drop(m, 2), value)

OP_GREATER(m) == BINARY_OP(m, BOOL_VAL(peek(m, 1).n > peek(m, 0).n))
OP_LESS(m) == BINARY_OP(m, BOOL_VAL(peek(m, 1).n < peek(m, 0).n))
OP_SUBTRACT(m) == BINARY_OP(m, NUMBER_VAL(peek(m, 1).n - peek(m, 0).n))
OP_MULTIPLY(m) == BINARY_OP(m, NUMBER_VAL(peek(m, 1).n * peek(m, 0).n))
OP_DIVIDE(m) == BINARY_OP(m, NUMBER_VAL(peek(m, 1).n \div peek(m, 0).n))

\* A concatenate that pops its operands before it allocates the result.
concatenatePoppingFirst(m) ==
  LET b == peek(m, 0)
      a == peek(m, 1)
      m1 == Allocating(drop(m, 2), {a, b})
  IN push(m1, StringVal(a.chars \o b.chars))

\* a and b stay on the stack while ALLOCATE and takeString allocate.
concatenate(m) ==
  LET b == peek(m, 0)
      a == peek(m, 1)
      m1 == Allocating(m, {a, b})
  IN push(drop(m1, 2), StringVal(a.chars \o b.chars))

OP_ADD(m) ==
  IF IS_STRING(peek(m, 0)) /\ IS_STRING(peek(m, 1)) THEN concatenate(m)
  ELSE IF IS_NUMBER(peek(m, 0)) /\ IS_NUMBER(peek(m, 1))
    THEN push(drop(m, 2), NUMBER_VAL(peek(m, 1).n + peek(m, 0).n))
  ELSE ReturnRuntimeError(
         runtimeError(STORE_FRAME(m), "Operands must be two numbers or two strings."))

\* PUSH(BOOL_VAL(isFalsey(POP()))): the operand is popped, then the result is
\* stored in its slot.
OP_NOT(m) == push(pop(m), BOOL_VAL(isFalsey(peek(m, 0))))

\* What the conversion of the double -n to a Value gives, the handler having
\* no NUMBER_VAL: -0.0 converts to the bits of 0.0; the conversion of
\* a negative double is undefined, and the builds leave either all-zero bits
\* (the number 0.0) or the two's complement of n, which carries the object
\* tag.
NegateOutcomes(v) ==
  IF v = NUMBER_VAL(0) THEN {NUMBER_VAL(0)} ELSE {NUMBER_VAL(0), WildVal}

\* PUSH(-AS_NUMBER(POP())): `converted` is the Value the double converts to.
OP_NEGATE(m, converted) ==
  IF ~IS_NUMBER(peek(m, 0))
    THEN ReturnRuntimeError(runtimeError(STORE_FRAME(m), "Operand must be a number."))
    ELSE push(pop(m), converted)

OP_PRINT(m) == pop(m)

\* JUMP, JUMP_IF_FALSE and LOOP move ip only.
OP_JUMP(m) == m
OP_JUMP_IF_FALSE(m) == m
OP_LOOP(m) == m

----------------------------------------------------------------------------
(* Calls. *)

SetSlot(m, pos, v) == [m EXCEPT !.stack[pos] = v]

\* An instance that is always of the first class created.
newInstanceOfFirstClass(m, klass) ==
  [Allocating(m, {ClassVal(klass)}) EXCEPT !.instances =
     Append(@, [klass |-> 1, fields |-> EmptyTable(PropertyNames)])]

newInstance(m, klass) ==
  [Allocating(m, {ClassVal(klass)}) EXCEPT !.instances =
     Append(@, [klass |-> klass, fields |-> EmptyTable(PropertyNames)])]

\* `nativeResult` is the Value the native function returns.
callValue(m, callee, argCount, nativeResult) ==
  CASE callee.t = "bound_method" ->
         call(SetSlot(m, stackTop(m) - argCount - 1, callee.receiver),
              callee.method, argCount)
    [] callee.t = "class" ->
         LET m1 == newInstance(m, callee.id)
             m2 == SetSlot(m1, stackTop(m) - argCount - 1,
                           InstanceVal(Len(m1.instances)))
             initializer == tableGet(m.classes[callee.id].methods, "init")
         IN IF initializer # Absent THEN call(m2, initializer, argCount)
            ELSE IF argCount # 0
              THEN [ok |-> FALSE, vm |-> runtimeError(m2, "Expected 0 arguments.")]
            ELSE [ok |-> TRUE, vm |-> m2]
    [] callee.t = "closure" -> call(m, callee, argCount)
    [] callee.t = "native" ->
         [ok |-> TRUE, vm |-> push(drop(m, argCount + 1), nativeResult)]
    [] OTHER ->
         [ok |-> FALSE,
          vm |-> runtimeError(m, "Can only call functions and classes.")]

invokeFromClass(m, klass, name, argCount) ==
  LET method == tableGet(m.classes[klass].methods, name)
  IN IF method = Absent
       THEN [ok |-> FALSE, vm |-> runtimeError(m, "Undefined property.")]
       ELSE call(m, method, argCount)

\* An invoke that calls a field's value without storing it in the
\* receiver's slot.
invokeKeepingReceiver(m, name, argCount, nativeResult) ==
  LET receiver == peek(m, argCount)
  IN IF ~IS_INSTANCE(receiver)
       THEN [ok |-> FALSE, vm |-> runtimeError(m, "Only instances have methods.")]
       ELSE LET instance == m.instances[receiver.id]
                value == tableGet(instance.fields, name)
            IN IF value # Absent
                 THEN callValue(m, value, argCount, nativeResult)
                 ELSE invokeFromClass(m, instance.klass, name, argCount)

invoke(m, name, argCount, nativeResult) ==
  LET receiver == peek(m, argCount)
  IN IF ~IS_INSTANCE(receiver)
       THEN [ok |-> FALSE, vm |-> runtimeError(m, "Only instances have methods.")]
       ELSE LET instance == m.instances[receiver.id]
                value == tableGet(instance.fields, name)
            IN IF value # Absent
                 THEN callValue(SetSlot(m, stackTop(m) - argCount - 1, value),
                                value, argCount, nativeResult)
                 ELSE invokeFromClass(m, instance.klass, name, argCount)

bindMethod(m, klass, name) ==
  LET method == tableGet(m.classes[klass].methods, name)
  IN IF method = Absent
       THEN [ok |-> FALSE, vm |-> runtimeError(m, "Undefined property.")]
       ELSE LET m1 == Allocating(m, {peek(m, 0), method})  \* newBoundMethod
            IN [ok |-> TRUE, vm |-> push(pop(m1), BoundVal(peek(m, 0), method))]

\* A METHOD that keeps an entry the class already has.
defineMethodKeepingEntry(m, name) ==
  pop([m EXCEPT !.classes[peek(m, 1).id].methods =
         IF @[name] # Absent THEN @ ELSE tableSet(@, name, peek(m, 0)).table])

defineMethod(m, name) ==
  pop([m EXCEPT !.classes[peek(m, 1).id].methods =
         tableSet(@, name, peek(m, 0)).table])

\* "if (!f(...)) return INTERPRET_RUNTIME_ERROR;" around a helper's result.
OrRuntimeError(r) == IF r.ok THEN r.vm ELSE ReturnRuntimeError(r.vm)

OP_GET_PROPERTY(m, name) ==
  IF ~IS_INSTANCE(peek(m, 0))
    THEN ReturnRuntimeError(
           runtimeError(STORE_FRAME(m), "Only instances have properties."))
    ELSE LET instance == m.instances[peek(m, 0).id]
             value == tableGet(instance.fields, name)
         IN IF value # Absent THEN push(drop(m, 1), value)
            ELSE OrRuntimeError(bindMethod(m, instance.klass, name))

OP_SET_PROPERTY(m, name) ==
  IF ~IS_INSTANCE(peek(m, 1))
    THEN ReturnRuntimeError(runtimeError(STORE_FRAME(m), "Only instances have fields."))
    ELSE LET value == peek(m, 0)
             m1 == [m EXCEPT !.instances[peek(m, 1).id].fields =
                      tableSet(@, name, value).table]
         IN push(drop(m1, 2), value)

\* A GET_SUPER that binds without popping the superclass.
OP_GET_SUPER_KeepingSuperclass(m, name) ==
  OrRuntimeError(bindMethod(m, peek(m, 0).id, name))

OP_GET_SUPER(m, name) ==
  LET superclass == peek(m, 0)
  IN OrRuntimeError(bindMethod(pop(m), superclass.id, name))

OP_CALL(m, argCount, nativeResult) ==
  OrRuntimeError(
    callValue(STORE_FRAME(m), peek(m, argCount), argCount, nativeResult))

OP_INVOKE(m, method, argCount, nativeResult) ==
  OrRuntimeError(invoke(STORE_FRAME(m), method, argCount, nativeResult))

OP_SUPER_INVOKE(m, method, argCount) ==
  LET superclass == peek(m, 0)
  IN OrRuntimeError(
       invokeFromClass(STORE_FRAME(pop(m)), superclass.id, method, argCount))

\* The loop of CLOSURE over the upvalue operands <<isLocal, index>>.  The
\* handler holds the closure under construction (m.held); the stack slot
\* that refers to it sees each closure->upvalues[i] = ... .
RECURSIVE closureUpvalues(_, _, _)
closureUpvalues(m, base, operands) ==
  IF operands = <<>> THEN m
  ELSE LET isLocal == Head(operands)[1]
           index == Head(operands)[2]
           top == Len(m.stack)
           c == IF isLocal = 1
                  THEN captureUpvalue(m, base + index)
                  ELSE [upvalue |-> frame(m).closure.upvalues[index + 1], vm |-> m]
           closure == CHOOSE o \in m.held : TRUE
           filled == [closure EXCEPT !.upvalues = Append(@, c.upvalue)]
       IN closureUpvalues(
            [c.vm EXCEPT !.stack[top] = filled, !.held = {filled}],
            base, Tail(operands))

\* newClosure(function), PUSH(OBJ_VAL(closure)), then the upvalues.
OP_CLOSURE(m, function, operands) ==
  LET closure == ClosureVal(function, <<>>)
      m1 == push(Allocating(m, {FunctionVal(function)}), closure)
  IN closureUpvalues([m1 EXCEPT !.held = {closure}], stackStart(m), operands)

OP_CLOSE_UPVALUE(m) == drop(closeUpvalues(m, stackTop(m) - 1), 1)

OP_RETURN(m) ==
  LET res == peek(m, 0)
      m1 == closeUpvalues(pop(m), stackStart(m))
      m2 == [m1 EXCEPT !.frames = SubSeq(@, 1, Len(@) - 1)]
  IN IF frameCount(m2) = 0
       THEN [drop(m2, 1) EXCEPT !.result = "INTERPRET_OK"]
       ELSE push([m2 EXCEPT !.stack = SubSeq(@, 1, stackStart(m) - 1)], res)

newClass(m) ==
  [Allocating(m, {}) EXCEPT
     !.classes = Append(@, [methods |-> EmptyTable(PropertyNames)])]

OP_CLASS(m) ==
  LET m1 == newClass(m) IN push(m1, ClassVal(Len(m1.classes)))

OP_INHERIT(m) ==
  LET superclass == peek(m, 1)
  IN IF ~IS_CLASS(superclass)
       THEN ReturnRuntimeError(
              runtimeError(STORE_FRAME(m), "Superclass must be a class."))
       ELSE drop([m EXCEPT !.classes[peek(m, 0).id].methods =
                    tableAddAll(m.classes[superclass.id].methods, @)], 1)

OP_METHOD(m, name) == defineMethod(m, name)

\* interpret(): `compiled` tells whether compile() returned a function.
interpret(m, compiled) ==
  IF ~compiled
    THEN [m EXCEPT !.result = "INTERPRET_COMPILE_ERROR", !.message = "",
                   !.trace = <<>>]
  ELSE LET function == FunctionVal("script")
           closure == ClosureVal("script", <<>>)
           m0 == Allocating(push(m, function), {function})  \* newClosure
           m1 == push(pop(m0), closure)
       IN [call(m1, closure, 0).vm EXCEPT !.result = "RUNNING", !.message = "",
                                          !.trace = <<>>]

\* defineNative: the name and the native are on the stack while the next
\* allocation (newNative, then the table's growth) is made.
defineNative(m, name) ==
  LET m1 == push(Allocating(m, {}), StringVal(name))          \* copyString
      m2 == push(Allocating(m1, {StringVal(name)}), NativeVal(name))  \* newNative
      m3 == Allocating(m2, {StringVal(name), NativeVal(name)})
      m4 == [m3 EXCEPT !.globals = tableSet(@, m3.stack[1].chars, m3.stack[2]).table]
  IN drop(m4, 2)

initVM ==
  LET m == [stack |-> <<>>, frames |-> <<>>, openUpvalues |-> <<>>,
            upvalues |-> <<>>, globals |-> EmptyTable(GlobalNames \cup NativeNames),
            classes |-> <<>>, instances |-> <<>>, result |-> "NONE",
            message |-> "", trace |-> <<>>, unrooted |-> {}, held |-> {}]
  IN defineNative(defineNative(defineNative(defineNative(m,
       "clock"), "exit"), "gc"), "gcHeapSize")

----------------------------------------------------------------------------
(* The scanner (src/src/scanner.c).  A pointer into the source is a        *)
(* position 1..Len(source) + 1, the last one being the terminating NUL.    *)

NUL == "\\0"

\* The characters of the sources explored: two digits, a hex letter, the
\* letter x, the dot, blank and newline, the slash, the quote, a character
\* with a two-character form and one that starts no token.
Alphabet == {"0", "1", "a", "x", ".", " ", "\n", "/", "\"", "=", "#"}

MaxSourceLen == 4

Sources == UNION {[1..n -> Alphabet] : n \in 0..MaxSourceLen}

\* scanToken() calls explored on one source.
MaxCalls == MaxSourceLen + 3

charAt(i) == IF i \in 1..Len(source) THEN source[i] ELSE NUL

initScanner == [start |-> 1, current |-> 1, line |-> 1]

isAlpha(c) ==
  c \in {"a", "b", "c", "d", "e", "f", "g", "h", "i", "j", "k", "l", "m",
         "n", "o", "p", "q", "r", "s", "t", "u", "v", "w", "x", "y", "z",
         "A", "B", "C", "D", "E", "F", "G", "H", "I", "J", "K", "L", "M",
         "N", "O", "P", "Q", "R", "S", "T", "U", "V", "W", "X", "Y", "Z",
         "_"}

isDigit(c) == c \in {"0", "1", "2", "3", "4", "5", "6", "7", "8", "9"}

isAtEnd(s) == charAt(s.current) = NUL

\* advance() returns the character it steps over, charAt(s.current).
advance(s) == [s EXCEPT !.current = @ + 1]

\* peek() of scanner.c.
peekChar(s) == charAt(s.current)

peekNext(s) == IF isAtEnd(s) THEN NUL ELSE charAt(s.current + 1)

match(s, expected) ==
  IF isAtEnd(s) \/ charAt(s.current) # expected
    THEN [matched |-> FALSE, scanner |-> s]
    ELSE [matched |-> TRUE, scanner |-> advance(s)]

\* A token one character longer than the text scanned.
makeTokenOneLonger(s, type) ==
  [type |-> type,
   start |-> [in |-> "source", at |-> s.start],
   length |-> s.current - s.start + 1,
   line |-> s.line]

\* A token's start is a pointer: into the source, or into a message.
makeToken(s, type) ==
  [type |-> type,
   start |-> [in |-> "source", at |-> s.start],
   length |-> s.current - s.start,
   line |-> s.line]

strlen(text) ==
  CASE text = "Unterminated string." -> 20
    [] text = "Unexpected character." -> 21

errorToken(s, text) ==
  [type |-> "TOKEN_ERROR",
   start |-> [in |-> text, at |-> 1],
   length |-> strlen(text),
   line |-> s.line]

\* The loop of the comment case: up to the newline or the end.
RECURSIVE skipComment(_)
skipComment(s) ==
  IF peekChar(s) # "\n" /\ ~isAtEnd(s) THEN skipComment(advance(s)) ELSE s

RECURSIVE skipWhitespace(_)
skipWhitespace(s) ==
  LET c == peekChar(s)
  IN CASE c \in {" ", "\r", "\t"} -> skipWhitespace(advance(s))
       [] c = "\n" -> skipWhitespace(advance([s EXCEPT !.line = @ + 1]))
       [] c = "/" -> IF peekNext(s) = "/" THEN skipWhitespace(skipComment(s))
                                           ELSE s
       [] OTHER -> s

\* checkKeyword (lex.def): no keyword can be spelt with the letters of the
\* sources explored.
identifierType(s) == "TOKEN_IDENTIFIER"

RECURSIVE identifierChars(_)
identifierChars(s) ==
  IF isAlpha(peekChar(s)) \/ isDigit(peekChar(s))
    THEN identifierChars(advance(s)) ELSE s

identifier(s) ==
  LET s1 == identifierChars(s)
  IN [scanner |-> s1, token |-> makeToken(s1, identifierType(s1))]

isHex(c) ==
  c \in {"a", "b", "c", "d", "e", "f", "A", "B", "C", "D", "E", "F"}

RECURSIVE hexDigits(_)
hexDigits(s) ==
  IF isDigit(peekChar(s)) \/ isHex(peekChar(s)) THEN hexDigits(advance(s)) ELSE s

RECURSIVE digits(_)
digits(s) == IF isDigit(peekChar(s)) THEN digits(advance(s)) ELSE s

number(s) ==
  LET c == charAt(s.current - 1)
      s1 == IF c = "0" /\ (peekChar(s) = "x" \/ peekChar(s) = "X")
              THEN hexDigits(advance(s))
              ELSE LET s2 == digits(s)
                   IN IF peekChar(s2) = "." /\ isDigit(peekNext(s2))
                        THEN digits(advance(s2))
                        ELSE s2
  IN [scanner |-> s1, token |-> makeToken(s1, "TOKEN_NUMBER")]

RECURSIVE stringChars(_)
stringChars(s) ==
  IF peekChar(s) # "\"" /\ ~isAtEnd(s)
    THEN stringChars(advance(IF peekChar(s) = "\n"
                               THEN [s EXCEPT !.line = @ + 1] ELSE s))
    ELSE s

string(s) ==
  LET s1 == stringChars(s)
  IN IF isAtEnd(s1)
       THEN [scanner |-> s1, token |-> errorToken(s1, "Unterminated string.")]
       ELSE [scanner |-> advance(s1),
             token |-> makeToken(advance(s1), "TOKEN_STRING")]

\* The cases of scanToken's switch that return one token type.
Punctuation(c) ==
  CASE c = "(" -> "TOKEN_LEFT_PAREN"
    [] c = ")" -> "TOKEN_RIGHT_PAREN"
    [] c = "{" -> "TOKEN_LEFT_BRACE"
    [] c = "}" -> "TOKEN_RIGHT_BRACE"
    [] c = ";" -> "TOKEN_SEMICOLON"
    [] c = "," -> "TOKEN_COMMA"
    [] c = "." -> "TOKEN_DOT"
    [] c = "-" -> "TOKEN_MINUS"
    [] c = "+" -> "TOKEN_PLUS"
    [] c = "/" -> "TOKEN_SLASH"
    [] c = "*" -> "TOKEN_STAR"
    [] c = "?" -> "TOKEN_QUESTION"
    [] c = ":" -> "TOKEN_COLON"
    [] OTHER -> "none"

\* The cases that look for a following '='.
WithEqual(c) ==
  CASE c = "!" -> [two |-> "TOKEN_BANG_EQUAL", one |-> "TOKEN_BANG"]
    [] c = "=" -> [two |-> "TOKEN_EQUAL_EQUAL", one |-> "TOKEN_EQUAL"]
    [] c = "<" -> [two |-> "TOKEN_LESS_EQUAL", one |-> "TOKEN_LESS"]
    [] c = ">" -> [two |-> "TOKEN_GREATER_EQUAL", one |-> "TOKEN_GREATER"]
    [] OTHER -> [two |-> "none", one |-> "none"]

\* A scanToken that moves scanner.start only once it knows the source has
\* not ended.
scanTokenStartAfterEndCheck(s) ==
  LET s0 == skipWhitespace(s)
      s1 == [s0 EXCEPT !.start = s0.current]
      c == charAt(s1.current)
      s2 == advance(s1)
  IN IF isAtEnd(s0) THEN [scanner |-> s0, token |-> makeToken(s0, "TOKEN_EOF")]
     ELSE IF isAlpha(c) THEN identifier(s2)
     ELSE IF isDigit(c) THEN number(s2)
     ELSE IF Punctuation(c) # "none"
       THEN [scanner |-> s2, token |-> makeToken(s2, Punctuation(c))]
     ELSE IF WithEqual(c).one # "none"
       THEN LET m == match(s2, "=")
            IN [scanner |-> m.scanner,
                token |-> makeToken(m.scanner,
                                    IF m.matched THEN WithEqual(c).two
                                                 ELSE WithEqual(c).one)]
     ELSE IF c = "\"" THEN string(s2)
     ELSE [scanner |-> s2, token |-> errorToken(s2, "Unexpected character.")]

\* A scanToken that reports a character it does not know without
\* consuming it.
scanTokenKeepingUnknown(s) ==
  LET s0 == skipWhitespace(s)
      s1 == [s0 EXCEPT !.start = s0.current]
      c == charAt(s1.current)
      s2 == advance(s1)
  IN IF isAtEnd(s1) THEN [scanner |-> s1, token |-> makeToken(s1, "TOKEN_EOF")]
     ELSE IF isAlpha(c) THEN identifier(s2)
     ELSE IF isDigit(c) THEN number(s2)
     ELSE IF Punctuation(c) # "none"
       THEN [scanner |-> s2, token |-> makeToken(s2, Punctuation(c))]
     ELSE IF WithEqual(c).one # "none"
       THEN LET m == match(s2, "=")
            IN [scanner |-> m.scanner,
                token |-> makeToken(m.scanner,
                                    IF m.matched THEN WithEqual(c).two
                                                 ELSE WithEqual(c).one)]
     ELSE IF c = "\"" THEN string(s2)
     ELSE [scanner |-> s1, token |-> errorToken(s1, "Unexpected character.")]

scanToken(s) ==
  LET s0 == skipWhitespace(s)
      s1 == [s0 EXCEPT !.start = s0.current]
      c == charAt(s1.current)
      s2 == advance(s1)
  IN IF isAtEnd(s1) THEN [scanner |-> s1, token |-> makeToken(s1, "TOKEN_EOF")]
     ELSE IF isAlpha(c) THEN identifier(s2)
     ELSE IF isDigit(c) THEN number(s2)
     ELSE IF Punctuation(c) # "none"
       THEN [scanner |-> s2, token |-> makeToken(s2, Punctuation(c))]
     ELSE IF WithEqual(c).one # "none"
       THEN LET m == match(s2, "=")
            IN [scanner |-> m.scanner,
                token |-> makeToken(m.scanner,
                                    IF m.matched THEN WithEqual(c).two
                                                 ELSE WithEqual(c).one)]
     ELSE IF c = "\"" THEN string(s2)
     ELSE [scanner |-> s2, token |-> errorToken(s2, "Unexpected character.")]

\* No token returned yet.
NoToken ==
  [type |-> "none", start |-> [in |-> "source", at |-> 1], length |-> 0, line |-> 0]

----------------------------------------------------------------------------
\* The scanner before any source is handed to it.
ScannerIdle ==
  /\ source = <<>>
  /\ scanner = initScanner
  /\ token = NoToken
  /\ calls = 0

VMInit ==
  /\ stack = initVM.stack
  /\ frames = initVM.frames
  /\ openUpvalues = initVM.openUpvalues
  /\ upvalues = initVM.upvalues
  /\ globals = initVM.globals
  /\ classes = initVM.classes
  /\ instances = initVM.instances
  /\ result = initVM.result
  /\ message = initVM.message
  /\ trace = initVM.trace
  /\ unrooted = initVM.unrooted

Init ==
  /\ session \in Sessions
  /\ runs = 0
  /\ ScannerIdle
  /\ VMInit

----------------------------------------------------------------------------
(* The program being interpreted. *)

program == IF runs = 0 THEN "none" ELSE session[runs]

----------------------------------------------------------------------------
(* What the compiler guarantees of the bytecode it emits, and the bounds   *)
(* of the exploration.                                                     *)

\* run() is executing, and no push has yet written past the end of vm.stack
\* (what the VM does after such a write is not modelled).
Running == result = "RUNNING" /\ Len(stack) <= STACK_MAX

\* The current frame holds n values above its slot 0.
Operands(n) == window(VM) - 1 >= n

Captured(pos) ==
  \E i \in 1..Len(openUpvalues) : upvalues[openUpvalues[i]].location = pos

\* The n topmost slots are temporaries: no closure captured them.  (A
\* captured local is discarded by CLOSE_UPVALUE or RETURN, never by POP.)
Temporaries(n) == Operands(n) /\ \A k \in 0..(n - 1) : ~Captured(Len(stack) - k)

\* The frame's window has room for one more value.
CanPush == window(VM) < MaxWindow

\* The VM m stays inside the bounds of the exploration.  (callValue allocates
\* the instance before call() can refuse the initializer, so a step that ends
\* the run may leave one instance more.)
Explored(m) ==
  /\ Len(m.upvalues) <= MaxUpvalues
  /\ Len(m.classes) <= MaxClasses
  /\ Len(m.instances) <= MaxInstances + (IF m.result = "RUNNING" THEN 0 ELSE 1)
  /\ m.stack # <<>> =>
       LET v == peek(m, 0)
       IN /\ IS_NUMBER(v) => v.n \in Numbers
          /\ IS_STRING(v) => v.chars \in Concatenations

\* The VM once run() has fetched the next opcode.
Fetched == READ_BYTE(VM)

\* One opcode is executed: m is the VM its handler leaves.
Execute(op, m) ==
  /\ op \in Opcodes(program)
  /\ Explored(m)
  /\ Commit(m)
  /\ UNCHANGED <<session, runs>>

Constants == {NUMBER_VAL(n) : n \in Numbers} \cup {StringVal(s) : s \in Strings}

\* What a read of a dead stack slot may find.
Garbage == {NIL_VAL, NUMBER_VAL(0)}

\* The upvalue operands a CLOSURE of `function` may carry in the current frame.
OperandsOf(function) ==
  IF upvalueCount(function) = 0 THEN {<<>>}
  ELSE {<<<<1, index>>>> : index \in 0..window(VM)}
       \cup {<<<<0, index>>>> : index \in 0..(Len(frame(VM).closure.upvalues) - 1)}

----------------------------------------------------------------------------
(* The actions: interpret(), and one per opcode. *)

DoInterpret ==
  /\ result # "RUNNING"
  /\ runs < Len(session)
  /\ runs' = runs + 1
  /\ UNCHANGED session
  /\ \E compiled \in BOOLEAN :
       LET m == interpret(VM, compiled) IN Explored(m) /\ Commit(m)

DoConstant == Running /\ CanPush /\ \E c \in Constants : Execute("CONSTANT", OP_CONSTANT(Fetched, c))
DoNil == Running /\ CanPush /\ Execute("NIL", OP_NIL(Fetched))
DoTrue == Running /\ CanPush /\ Execute("TRUE", OP_TRUE(Fetched))
DoFalse == Running /\ CanPush /\ Execute("FALSE", OP_FALSE(Fetched))
DoPop == Running /\ Temporaries(1) /\ Execute("POP", OP_POP(Fetched))

\* Slot 0 has a name (`this`) in the body of a method only.
DoGetLocal ==
  /\ Running /\ CanPush
  /\ \E slot \in 0..(window(VM) - 1) :
       /\ slot = 0 => program = "methods" /\ frameCount(VM) > 1
       /\ Execute("GET_LOCAL", OP_GET_LOCAL(Fetched, slot))

DoSetLocal ==
  /\ Running /\ Operands(1)
  /\ \E slot \in 1..(window(VM) - 1) : Execute("SET_LOCAL", OP_SET_LOCAL(Fetched, slot))

GetGlobalStep(name) ==
  /\ Running /\ CanPush
  /\ name \in GlobalsOf(program)
  /\ Execute("GET_GLOBAL", OP_GET_GLOBAL(Fetched, name))

DoGetGlobal == \E name \in GlobalNames : GetGlobalStep(name)

DoDefineGlobal ==
  /\ Running /\ Temporaries(1)
  /\ \E name \in GlobalsOf(program) : Execute("DEFINE_GLOBAL", OP_DEFINE_GLOBAL(Fetched, name))

SetGlobalStep(name) ==
  /\ Running /\ Operands(1)
  /\ name \in GlobalsOf(program)
  /\ Execute("SET_GLOBAL", OP_SET_GLOBAL(Fetched, name))

DoSetGlobal == \E name \in GlobalNames : SetGlobalStep(name)

\* The upvalue operands the compiler emits in the current function.
UpvalueIndexes == 0..(Len(frame(VM).closure.upvalues) - 1)

GetUpvalueStep(index) ==
  /\ Running /\ CanPush
  /\ \E garbage \in
          IF location(VM, frame(VM).closure.upvalues[index + 1]) >= stackTop(VM)
            THEN Garbage ELSE {NIL_VAL} :
       Execute("GET_UPVALUE", OP_GET_UPVALUE(Fetched, index, garbage))

DoGetUpvalue == Running /\ \E index \in UpvalueIndexes : GetUpvalueStep(index)

SetUpvalueStep(index) ==
  /\ Running /\ Operands(1)
  /\ Execute("SET_UPVALUE", OP_SET_UPVALUE(Fetched, index))

DoSetUpvalue == Running /\ \E index \in UpvalueIndexes : SetUpvalueStep(index)

DoGetProperty ==
  /\ Running /\ Temporaries(1)
  /\ \E name \in PropertyNames : Execute("GET_PROPERTY", OP_GET_PROPERTY(Fetched, name))

DoSetProperty ==
  /\ Running /\ Temporaries(2)
  /\ \E name \in PropertyNames : Execute("SET_PROPERTY", OP_SET_PROPERTY(Fetched, name))

\* The compiler emits GET_SUPER with `this` and the superclass on top.
GetSuperStep(name) ==
  /\ Running /\ Temporaries(2)
  /\ IS_CLASS(peek(VM, 0)) /\ IS_INSTANCE(peek(VM, 1))
  /\ Execute("GET_SUPER", OP_GET_SUPER(Fetched, name))

DoGetSuper == \E name \in PropertyNames : GetSuperStep(name)

DoEqual ==
  /\ Running /\ Temporaries(2)
  /\ \E same \in BOOLEAN : Execute("EQUAL", OP_EQUAL(Fetched, same))

DoGreater == Running /\ Temporaries(2) /\ Execute("GREATER", OP_GREATER(Fetched))
DoLess == Running /\ Temporaries(2) /\ Execute("LESS", OP_LESS(Fetched))
\* IS_STRING, callValue and printValue read the object a Value points to:
\* what they find behind a wild pointer is not modelled.
Readable(distance) == peek(VM, distance) # WildVal

DoAdd ==
  /\ Running /\ Temporaries(2)
  /\ Readable(0) /\ Readable(1)
  /\ Execute("ADD", OP_ADD(Fetched))
DoSubtract == Running /\ Temporaries(2) /\ Execute("SUBTRACT", OP_SUBTRACT(Fetched))
DoMultiply == Running /\ Temporaries(2) /\ Execute("MULTIPLY", OP_MULTIPLY(Fetched))

\* Division by zero (an IEEE infinity or NaN) is outside Numbers.
DoDivide ==
  /\ Running /\ Temporaries(2)
  /\ IS_NUMBER(peek(VM, 0)) => peek(VM, 0).n # 0
  /\ Execute("DIVIDE", OP_DIVIDE(Fetched))

DoNot == Running /\ Temporaries(1) /\ Execute("NOT", OP_NOT(Fetched))

DoNegate ==
  /\ Running /\ Temporaries(1)
  /\ \E converted \in NegateOutcomes(peek(VM, 0)) :
       Execute("NEGATE", OP_NEGATE(Fetched, converted))

DoPrint == Running /\ Temporaries(1) /\ Readable(0) /\ Execute("PRINT", OP_PRINT(Fetched))
DoJump == Running /\ Execute("JUMP", OP_JUMP(Fetched))
DoJumpIfFalse == Running /\ Operands(1) /\ Execute("JUMP_IF_FALSE", OP_JUMP_IF_FALSE(Fetched))
DoLoop == Running /\ Execute("LOOP", OP_LOOP(Fetched))

CallStep(argCount) ==
  /\ Running /\ Temporaries(argCount + 1)
  /\ Readable(argCount)
  /\ \E n \in IF peek(VM, argCount).t = "native" THEN Numbers ELSE {0} :
       Execute("CALL", OP_CALL(Fetched, argCount, NUMBER_VAL(n)))

DoCall == \E argCount \in ArgCounts : CallStep(argCount)

InvokeStep(method, argCount) ==
  /\ Running /\ Temporaries(argCount + 1)
  /\ Execute("INVOKE", OP_INVOKE(Fetched, method, argCount, NUMBER_VAL(0)))

DoInvoke ==
  \E method \in PropertyNames, argCount \in ArgCounts : InvokeStep(method, argCount)

\* The compiler emits SUPER_INVOKE with the superclass on top of `this` and
\* the arguments.
SuperInvokeStep(method, argCount) ==
  /\ Running /\ Temporaries(argCount + 2)
  /\ IS_CLASS(peek(VM, 0))
  /\ Execute("SUPER_INVOKE", OP_SUPER_INVOKE(Fetched, method, argCount))

DoSuperInvoke ==
  \E method \in PropertyNames, argCount \in ArgCounts :
    SuperInvokeStep(method, argCount)

ClosureStep(function, operands) ==
  /\ Running /\ CanPush
  /\ function \in FunctionsOf(program)
  /\ operands \in OperandsOf(function)
  /\ Execute("CLOSURE", OP_CLOSURE(Fetched, function, operands))

DoClosure ==
  /\ Running
  /\ \E function \in FunctionNames :
       \E operands \in OperandsOf(function) : ClosureStep(function, operands)

DoCloseUpvalue == Running /\ Operands(1) /\ Execute("CLOSE_UPVALUE", OP_CLOSE_UPVALUE(Fetched))

\* The script's RETURN comes after every scope is closed: its window is the
\* script closure and the result.
DoReturn ==
  /\ Running /\ Temporaries(1)
  /\ frameCount(VM) = 1 => window(VM) = 2
  /\ Execute("RETURN", OP_RETURN(Fetched))

DoClass == Running /\ CanPush /\ Execute("CLASS", OP_CLASS(Fetched))

\* The compiler emits INHERIT with the subclass on top.
DoInherit ==
  /\ Running /\ Temporaries(1) /\ Operands(2)
  /\ IS_CLASS(peek(VM, 0))
  /\ Execute("INHERIT", OP_INHERIT(Fetched))

\* The compiler emits METHOD with the method's closure on top of the class.
DoMethod ==
  /\ Running /\ Temporaries(1) /\ Operands(2)
  /\ IS_CLOSURE(peek(VM, 0)) /\ IS_CLASS(peek(VM, 1))
  /\ \E name \in PropertyNames : Execute("METHOD", OP_METHOD(Fetched, name))

Next ==
  \/ DoInterpret
  \/ DoConstant \/ DoNil \/ DoTrue \/ DoFalse \/ DoPop
  \/ DoGetLocal \/ DoSetLocal
  \/ DoGetGlobal \/ DoDefineGlobal \/ DoSetGlobal
  \/ DoGetUpvalue \/ DoSetUpvalue
  \/ DoGetProperty \/ DoSetProperty \/ DoGetSuper
  \/ DoEqual \/ DoGreater \/ DoLess
  \/ DoAdd \/ DoSubtract \/ DoMultiply \/ DoDivide
  \/ DoNot \/ DoNegate \/ DoPrint
  \/ DoJump \/ DoJumpIfFalse \/ DoLoop
  \/ DoCall \/ DoInvoke \/ DoSuperInvoke
  \/ DoClosure \/ DoCloseUpvalue \/ DoReturn
  \/ DoClass \/ DoInherit \/ DoMethod


Spec == Init /\ [][Next]_vars

----------------------------------------------------------------------------
(* The scanner on its own: initScanner(source), then scanToken() calls. *)

ScannerInit ==
  /\ source \in Sources
  /\ scanner = initScanner
  /\ token = NoToken
  /\ calls = 0
  /\ session = <<>>
  /\ runs = 0
  /\ VMInit

DoScanToken ==
  /\ calls < MaxCalls
  /\ LET r == scanToken(scanner)
     IN /\ scanner' = r.scanner
        /\ token' = r.token
  /\ calls' = calls + 1
  /\ UNCHANGED <<source, vmVars>>

ScannerNext == DoScanToken

ScannerSpec == ScannerInit /\ [][ScannerNext]_vars

\* The compiler keeps asking for tokens until it has seen TOKEN_EOF.
ScannerLiveSpec == ScannerSpec /\ WF_vars(DoScanToken)

----------------------------------------------------------------------------
(* Properties. *)

Terminated == result \in {"INTERPRET_OK", "INTERPRET_RUNTIME_ERROR", "INTERPRET_COMPILE_ERROR"}

OnOpenList(u) == \E i \in 1..Len(openUpvalues) : openUpvalues[i] = u

\* C1: whenever interpret() has returned (ok, runtime error or compile
\* error), on any of the session's calls, frameCount is 0 and stackTop is
\* vm.stack.
C1_InterpretLeavesStacksEmpty ==
  Terminated => Len(frames) = 0 /\ Len(stack) = 0

\* A second interpret() on the same VM has ended in a runtime error.
C1_Witness == runs = 2 /\ result = "INTERPRET_RUNTIME_ERROR"

\* The upvalues of the closures held by the globals table.
GlobalUpvalues ==
  UNION {{globals[n].upvalues[k] : k \in 1..Len(globals[n].upvalues)} :
           n \in {x \in DOMAIN globals : IS_CLOSURE(globals[x])}}

\* C2: an upvalue's location points into the value stack iff the upvalue is
\* on vm.openUpvalues, and to its own closed field iff it is closed; stated
\* of the upvalues that closures stored in globals hold.
C2_LocationIffOpen ==
  \A u \in GlobalUpvalues : ~IsClosed(VM, u) <=> OnOpenList(u)

\* C3: vm.openUpvalues is strictly sorted by stack address, highest first,
\* which leaves at most one open upvalue per slot.
C3_OpenUpvaluesSorted ==
  \A i, j \in 1..Len(openUpvalues) :
    i < j => upvalues[openUpvalues[i]].location > upvalues[openUpvalues[j]].location

\* Two upvalues are open at once.
C3_Witness == Len(openUpvalues) >= 2

\* What closeUpvalues(last) leaves, seen across the step of its caller.
ClosedFrom(last) ==
  /\ \A i \in 1..Len(openUpvalues') : upvalues'[openUpvalues'[i]].location < last
  /\ \A i \in 1..Len(openUpvalues) :
       LET u == openUpvalues[i]
       IN upvalues[u].location < last =>
            /\ \E j \in 1..Len(openUpvalues') : openUpvalues'[j] = u
            /\ upvalues'[u] = upvalues[u]

\* C4: after closeUpvalues(x), called by RETURN with x = the frame's slots
\* and by CLOSE_UPVALUE with x = stackTop - 1, no open upvalue has location
\* >= x, and every upvalue that was open below x is still on the list,
\* unchanged.
C4_CloseUpvaluesClosesFrom ==
  [][/\ DoReturn => ClosedFrom(stackStart(VM))
     /\ DoCloseUpvalue => ClosedFrom(stackTop(VM) - 1)]_vars

\* An upvalue has been closed while another, lower one stays open.
C4_Witness ==
  /\ openUpvalues # <<>>
  /\ \E u \in 1..Len(upvalues) : IsClosed(VM, u)

\* The closure that a CLOSURE step has just pushed.
NewClosure == stack'[Len(stack')]

SlotIsOpen(slot) ==
  \E i \in 1..Len(openUpvalues) : upvalues[openUpvalues[i]].location = slot

\* What CLOSURE with upvalue operands <<isLocal, index>> leaves.
SharesUpvalues(operands) ==
  /\ \A k \in 1..Len(operands) :
       LET isLocal == operands[k][1]
           index == operands[k][2]
           slot == stackStart(VM) + index
           u == NewClosure.upvalues[k]
       IN IF isLocal = 1
            THEN /\ upvalues'[u].location = slot
                 /\ \A i \in 1..Len(openUpvalues) :
                      upvalues[openUpvalues[i]].location = slot => u = openUpvalues[i]
                 /\ Cardinality({i \in 1..Len(openUpvalues') :
                      upvalues'[openUpvalues'[i]].location = slot}) = 1
            ELSE u = frame(VM).closure.upvalues[index + 1]
  /\ Len(upvalues') - Len(upvalues) =
       Cardinality({stackStart(VM) + operands[k][2] : k \in
                      {x \in 1..Len(operands) :
                         operands[x][1] = 1
                         /\ ~SlotIsOpen(stackStart(VM) + operands[x][2])}})

\* C5: one variable has one upvalue object.  A CLOSURE that captures a local
\* slot which already has an open upvalue takes that very upvalue and
\* allocates none (afterwards the slot still has exactly one open upvalue);
\* a CLOSURE that captures transitively takes the very upvalue of the
\* enclosing frame's closure.
C5_OneUpvaluePerVariable ==
  [][Running /\ Len(stack') = Len(stack) + 1 =>
       \A function \in FunctionsOf(program) :
         \A operands \in OperandsOf(function) :
           ClosureStep(function, operands) => SharesUpvalues(operands)]_vars

\* Inside a called closure, a closure of another function holds the same
\* open upvalue as the callee does, for a variable of the caller's frame.
C5_Witness ==
  /\ Len(frames) = 2
  /\ IS_CLOSURE(peek(VM, 0))
  /\ peek(VM, 0).function # frame(VM).closure.function
  /\ peek(VM, 0).upvalues # <<>>
  /\ peek(VM, 0).upvalues = frame(VM).closure.upvalues
  /\ location(VM, peek(VM, 0).upvalues[1]) \in 1..(stackStart(VM) - 1)
  /\ OnOpenList(peek(VM, 0).upvalues[1])

\* The closure that callValue hands to call() for this callee, if any.
CalledClosure(callee) ==
  CASE callee.t = "closure" -> callee
    [] callee.t = "bound_method" -> callee.method
    [] callee.t = "class" -> classes[callee.id].methods["init"]
    [] OTHER -> Absent

\* The closure that invoke() hands to call(), if any.
InvokedClosure(name, argCount) ==
  LET receiver == peek(VM, argCount)
  IN IF ~IS_INSTANCE(receiver) THEN Absent
     ELSE IF instances[receiver.id].fields[name] # Absent
       THEN CalledClosure(instances[receiver.id].fields[name])
     ELSE classes[instances[receiver.id].klass].methods[name]

\* call(target, argCount) is attempted with every frame in use.
Overflows(target, argCount) ==
  /\ Len(frames) = FRAMES_MAX
  /\ target # Absent
  /\ arity(target.function) = argCount

StackOverflowReported ==
  /\ result' = "INTERPRET_RUNTIME_ERROR"
  /\ message' = "Stack overflow."
  /\ frames' = <<>>

\* C6: frameCount never exceeds FRAMES_MAX; a call attempted at frameCount =
\* FRAMES_MAX, by CALL (closure, bound method, class initializer), INVOKE or
\* SUPER_INVOKE, pushes no frame, reports "Stack overflow." and ends the
\* run with INTERPRET_RUNTIME_ERROR.
C6_FramesBounded ==
  [][/\ Len(frames') <= FRAMES_MAX
     /\ \A argCount \in ArgCounts :
          Running /\ Temporaries(argCount + 1) =>
            /\ CallStep(argCount) /\ Overflows(CalledClosure(peek(VM, argCount)), argCount)
                 => StackOverflowReported
            /\ \A name \in PropertyNames :
                 /\ InvokeStep(name, argCount)
                      /\ Overflows(InvokedClosure(name, argCount), argCount)
                      => StackOverflowReported
                 /\ SuperInvokeStep(name, argCount)
                      /\ Overflows(classes[peek(VM, 0).id].methods[name], argCount)
                      => StackOverflowReported]_vars

\* A call has been refused for want of a frame.
C6_Witness == message = "Stack overflow." /\ result = "INTERPRET_RUNTIME_ERROR"

\* C7: stackTop never exceeds the capacity of vm.stack.
C7_StackWithinCapacity == Len(stack) <= STACK_MAX

Grows ==
  \/ DoConstant \/ DoNil \/ DoTrue \/ DoFalse \/ DoGetLocal \/ DoGetGlobal
  \/ DoGetUpvalue \/ DoClosure \/ DoClass

Shrinks ==
  \/ DoPop \/ DoDefineGlobal \/ DoSetProperty \/ DoEqual \/ DoGreater \/ DoLess
  \/ DoAdd \/ DoSubtract \/ DoMultiply \/ DoDivide \/ DoPrint \/ DoCloseUpvalue
  \/ DoInherit \/ DoMethod

Keeps ==
  \/ DoSetLocal \/ DoSetGlobal \/ DoSetUpvalue \/ DoGetProperty \/ DoNot
  \/ DoNegate \/ DoJump \/ DoJumpIfFalse \/ DoLoop

\* C8: an opcode that stays in its frame and raises no runtime error changes
\* the height of the value stack by its declared effect: +1 for CONSTANT, NIL,
\* TRUE, FALSE, GET_LOCAL, GET_GLOBAL, GET_UPVALUE, CLOSURE, CLASS; -1 for POP,
\* DEFINE_GLOBAL, SET_PROPERTY, EQUAL, GREATER, LESS, ADD, SUBTRACT, MULTIPLY,
\* DIVIDE, PRINT, CLOSE_UPVALUE, INHERIT, METHOD; 0 for SET_LOCAL, SET_GLOBAL,
\* SET_UPVALUE, GET_PROPERTY, NOT, NEGATE, JUMP, JUMP_IF_FALSE, LOOP.
C8_DeclaredStackEffects ==
  [][result' = "RUNNING" =>
       /\ Len(stack') # Len(stack) + 1 => ~Grows
       /\ Len(stack') # Len(stack) - 1 => ~Shrinks
       /\ Len(stack') # Len(stack) => ~Keeps]_vars

\* METHOD has run: the class has the method and is on top of the stack, the
\* method's closure is gone.
C8_Witness ==
  /\ program = "classes" /\ result = "RUNNING"
  /\ Len(stack) = 2
  /\ IS_CLASS(peek(VM, 0))
  /\ classes[peek(VM, 0).id].methods["m"] # Absent

SuperclassHas(name) == classes[peek(VM, 0).id].methods[name] # Absent

BindsSuperMethod(name) ==
  /\ result' = "RUNNING"
  /\ stack'[Len(stack')] = BoundVal(peek(VM, 1), classes[peek(VM, 0).id].methods[name])
  /\ SubSeq(stack', 1, Len(stack') - 1) = SubSeq(stack, 1, Len(stack) - 2)

\* C9 as stated: GET_SUPER with the receiver and the superclass on top, the
\* method being on the superclass, yields the bound method and leaves the
\* stack height unchanged.
C9_GetSuperKeepsHeight ==
  [][\A name \in PropertyNames :
       GetSuperStep(name) /\ SuperclassHas(name) =>
         BindsSuperMethod(name) /\ Len(stack') = Len(stack)]_vars

\* C9: GET_SUPER with the receiver and the superclass on top, the method being
\* on the superclass, consumes the superclass and the receiver and puts the
\* bound method (receiver + method closure) in the receiver's place: the
\* stack is one lower.
C9_GetSuperBindsInPlace ==
  [][\A name \in PropertyNames :
       GetSuperStep(name) /\ SuperclassHas(name) =>
         BindsSuperMethod(name) /\ Len(stack') = Len(stack) - 1]_vars

\* GET_SUPER has bound a superclass method: the bound method on top is no
\* method of its receiver's own class, so GET_PROPERTY cannot have made it.
C9_Witness ==
  /\ result = "RUNNING" /\ stack # <<>>
  /\ peek(VM, 0).t = "bound_method"
  /\ \A name \in PropertyNames :
       classes[instances[peek(VM, 0).receiver.id].klass].methods[name] = Absent

\* C10: SET_GLOBAL of a name with no entry in globals ends the run with
\* INTERPRET_RUNTIME_ERROR and "Undefined variable", and leaves no entry for
\* the name (GET_GLOBAL of it fails as well); SET_GLOBAL of a defined name
\* stores the value on top of the stack and the run goes on.
C10_SetGlobalNeedsDefinition ==
  [][\A name \in GlobalNames :
       SetGlobalStep(name) =>
         IF tableGet(globals, name) = Absent
           THEN /\ result' = "INTERPRET_RUNTIME_ERROR"
                /\ message' = "Undefined variable."
                /\ globals' = globals
                /\ OP_GET_GLOBAL(VM', name).result = "INTERPRET_RUNTIME_ERROR"
           ELSE /\ result' = "RUNNING"
                /\ globals' = [globals EXCEPT ![name] = peek(VM, 0)]
                /\ tableGet(globals', name) # Absent]_vars

\* SET_GLOBAL of an undefined name has ended a run (the programs of this kind
\* have no GET_GLOBAL), and the name is still undefined.
C10_Witness ==
  /\ program = "closures"
  /\ result = "INTERPRET_RUNTIME_ERROR"
  /\ message = "Undefined variable."
  /\ tableGet(globals, "a") = Absent

\* C11: whenever run() has reported a runtime error, the cached ip had been
\* stored into the current frame before runtimeError read frame->ip: the
\* first stack-trace line is the one of the faulting instruction.
C11_TraceNamesFaultingInstruction ==
  result = "INTERPRET_RUNTIME_ERROR" => trace # <<>> /\ trace[1] = "current"

\* C12: at every allocation in vm.c (newInstance, newBoundMethod,
\* concatenate's ALLOCATE/takeString, newClosure in CLOSURE and interpret,
\* newUpvalue, copyString/newNative in defineNative, newClass) every object
\* the interpreter uses afterwards was reachable from the roots: no
\* collection there could have freed an object in use.
C12_AllocationsKeepObjectsInUse == unrooted = {}

\* newInstance and newBoundMethod have allocated: the bound method of an
\* instance is on the stack.
C12_Witness ==
  /\ result = "RUNNING" /\ stack # <<>>
  /\ peek(VM, 0).t = "bound_method"
  /\ IS_INSTANCE(peek(VM, 0).receiver)
  /\ unrooted = {}

\* CALL of a closure that call() accepts.
CallsClosure(argCount) ==
  /\ CallStep(argCount)
  /\ peek(VM, argCount).t = "closure"
  /\ arity(peek(VM, argCount).function) = argCount
  /\ Len(frames) < FRAMES_MAX

CallsNative(argCount) == CallStep(argCount) /\ peek(VM, argCount).t = "native"

\* RETURN from a called closure (not from the script).
ReturnsToCaller == DoReturn /\ Len(frames) > 1

\* C13: a CALL of a closure with argCount arguments pushes one frame whose
\* slots start at the callee and leaves the caller's frame with its ip
\* stored after the call; the RETURN of that frame replaces everything from
\* the callee's slot upwards (callee, arguments, the callee's temporaries)
\* by the return value, which leaves the stack argCount lower than at the
\* call, pops exactly that frame and resumes the caller with the ip, slots
\* and closure it had; no step in between touches a suspended frame.  A
\* native call replaces [callee, args] by one value and pushes no frame.
C13_CallAndReturnShape ==
  [][/\ \A argCount \in ArgCounts :
          /\ CallsClosure(argCount) =>
               /\ stack' = stack
               /\ frames' = Append(STORE_FRAME(VM).frames,
                                   [closure |-> peek(VM, argCount),
                                    ip |-> "current",
                                    slots |-> Len(stack) - argCount])
          /\ CallsNative(argCount) =>
               /\ Len(stack') = Len(stack) - argCount
               /\ SubSeq(stack', 1, Len(stack') - 1)
                    = SubSeq(stack, 1, Len(stack) - argCount - 1)
               /\ frames' = STORE_FRAME(VM).frames
     /\ ReturnsToCaller =>
          /\ stack' = SubSeq(stack, 1, stackStart(VM) - 1) \o <<peek(VM, 0)>>
          /\ frames' = SubSeq(frames, 1, Len(frames) - 1)
          /\ frame(VM').ip = "current"
     /\ \A i \in 1..(Len(frames) - 1) : i <= Len(frames') => frames'[i] = frames[i]]_vars

\* A called closure has returned into the script (programs of this kind call
\* nothing but closures): the script's frame->ip is the cached ip again and
\* the script has a value above its slot 0.
C13_Witness ==
  /\ program = "closures" /\ result = "RUNNING"
  /\ Len(frames) = 1 /\ frame(VM).ip = "current"
  /\ Len(stack) > 1

CallsClass(argCount) == CallStep(argCount) /\ IS_CLASS(peek(VM, argCount))

\* The callee's slot holds the instance the call created.
InstanceInCalleeSlot(argCount) ==
  stack' = [stack EXCEPT ![Len(stack) - argCount] = InstanceVal(Len(instances) + 1)]

\* C14: CALL of a class creates one new instance of that class with no
\* fields; when the class has an "init" method and call() accepts it (arity
\* equal to argCount, a free frame) the instance is in the callee's slot and
\* the new frame runs the initializer on that slot, and when call() rejects
\* it the run ends in a runtime error; without "init" the call succeeds with
\* the instance in the callee's slot and no new frame when argCount = 0 and
\* is the runtime error "Expected 0 arguments." otherwise.
C14_ClassCallCreatesInstance ==
  [][\A argCount \in ArgCounts :
       CallsClass(argCount) =>
         LET klass == peek(VM, argCount).id
             initializer == tableGet(classes[klass].methods, "init")
         IN /\ instances' = Append(instances,
                                   [klass |-> klass,
                                    fields |-> EmptyTable(PropertyNames)])
            /\ IF initializer # Absent
                 THEN IF arity(initializer.function) = argCount
                         /\ Len(frames) < FRAMES_MAX
                        THEN /\ result' = "RUNNING"
                             /\ InstanceInCalleeSlot(argCount)
                             /\ frames' = Append(STORE_FRAME(VM).frames,
                                                 [closure |-> initializer,
                                                  ip |-> "current",
                                                  slots |-> Len(stack) - argCount])
                        ELSE /\ result' = "INTERPRET_RUNTIME_ERROR"
                             /\ message' \in {"Expected arguments.", "Stack overflow."}
                 ELSE IF argCount = 0
                        THEN /\ result' = "RUNNING"
                             /\ InstanceInCalleeSlot(argCount)
                             /\ frames' = STORE_FRAME(VM).frames
                        ELSE /\ result' = "INTERPRET_RUNTIME_ERROR"
                             /\ message' = "Expected 0 arguments."]_vars

\* The initializer of the second class has just been entered on the fresh
\* instance of that class.
C14_Witness ==
  /\ result = "RUNNING" /\ Len(frames) = 2 /\ frame(VM).ip = "current"
  /\ Len(instances) = 1 /\ instances[1].klass = 2
  /\ instances[1].fields = EmptyTable(PropertyNames)
  /\ stack[stackStart(VM)] = InstanceVal(1)
  /\ frame(VM).closure = tableGet(classes[2].methods, "init")

\* C15: INHERIT with a class as superclass leaves in the subclass's table
\* every method the superclass has at that step (the subclass's other
\* entries stay) and does not change the superclass; INHERIT with anything
\* else is a runtime error that changes no class; METHOD sets the entry of
\* its name in the class under the closure to that closure, whatever the
\* entry was (an inherited one is overridden), and changes no other entry
\* and no other class (a subclass keeps what it inherited); no other step
\* changes the method table of an existing class.
C15_InheritCopiesMethods ==
  [][/\ DoInherit /\ IS_CLASS(peek(VM, 1)) =>
          LET superclass == peek(VM, 1).id
              subclass == peek(VM, 0).id
          IN /\ result' = "RUNNING"
             /\ \A name \in PropertyNames :
                  classes'[subclass].methods[name] =
                    IF classes[superclass].methods[name] # Absent
                      THEN classes[superclass].methods[name]
                      ELSE classes[subclass].methods[name]
             /\ \A c \in 1..Len(classes) : c # subclass => classes'[c] = classes[c]
     /\ DoInherit /\ ~IS_CLASS(peek(VM, 1)) =>
          /\ result' = "INTERPRET_RUNTIME_ERROR"
          /\ message' = "Superclass must be a class."
          /\ classes' = classes
     /\ DoMethod =>
          \E name \in PropertyNames :
            classes' = [classes EXCEPT ![peek(VM, 1).id].methods[name] = peek(VM, 0)]
     /\ ~(DoInherit \/ DoMethod) =>
          \A c \in 1..Len(classes) : classes'[c] = classes[c]]_vars

\* The second class holds the initializer and the method "m" of the first,
\* and "m" of the first class has been replaced since.
C15_Witness ==
  /\ program = "inheritance" /\ result = "RUNNING"
  /\ Len(classes) = 2
  /\ classes[1].methods["init"] = ClosureVal("g", <<>>)
  /\ classes[1].methods["m"] = ClosureVal("k", <<>>)
  /\ classes[2].methods["init"] = ClosureVal("g", <<>>)
  /\ classes[2].methods["m"] = ClosureVal("g", <<>>)

\* The current function's upvalue `index` is the closed upvalue u.
ThroughClosed(index, u) ==
  frame(VM).closure.upvalues[index + 1] = u /\ IsClosed(VM, u)

\* C19: an upvalue that a step closes holds in `closed` the value its stack
\* slot held before the step; GET_UPVALUE through a closed upvalue pushes
\* its `closed` value, whichever closure reads it (closures that shared the
\* open upvalue hold the same ObjUpvalue); a closed upvalue stays closed and
\* its value changes only by a SET_UPVALUE through it, to the value on top
\* of the stack, so no write to a stack slot is seen through it.
C19_ClosingKeepsTheVariable ==
  [][/\ \A u \in 1..Len(upvalues) :
          /\ ~IsClosed(VM, u) /\ IsClosed(VM', u) =>
               upvalues'[u].closed = stack[location(VM, u)]
          /\ IsClosed(VM, u) =>
               /\ IsClosed(VM', u)
               /\ upvalues'[u].closed # upvalues[u].closed =>
                    /\ upvalues'[u].closed = peek(VM, 0)
                    /\ \E index \in UpvalueIndexes :
                         SetUpvalueStep(index) /\ ThroughClosed(index, u)
     /\ Running =>
          \A index \in UpvalueIndexes, u \in 1..Len(upvalues) :
            /\ GetUpvalueStep(index) /\ ThroughClosed(index, u) =>
                 peek(VM', 0) = upvalues[u].closed
            /\ SetUpvalueStep(index) /\ ThroughClosed(index, u) =>
                 /\ upvalues'[u].closed = peek(VM, 0)
                 /\ stack' = stack]_vars

\* The running closure has just read, through a closed upvalue it shares
\* with the different closure in global a, a value that is not the nil the
\* upvalue was created with.
C19_Witness ==
  /\ result = "RUNNING" /\ Len(frames) = 2 /\ frame(VM).ip = "stale"
  /\ \E u \in 1..Len(upvalues) :
       /\ IsClosed(VM, u)
       /\ frame(VM).closure.upvalues = <<u>>
       /\ IS_CLOSURE(globals["a"])
       /\ globals["a"].upvalues = <<u>>
       /\ globals["a"].function # frame(VM).closure.function
       /\ upvalues[u].closed # NIL_VAL
       /\ Len(stack) > stackStart(VM)
       /\ peek(VM, 0) = upvalues[u].closed

\* C20: NEGATE with the number n on top of the stack leaves the stack as it
\* was but for the top slot, which holds the number -n; with anything else
\* on top it ends the run with "Operand must be a number.".
C20_NegateYieldsNegatedNumber ==
  [][DoNegate =>
       IF IS_NUMBER(peek(VM, 0))
         THEN /\ result' = "RUNNING"
              /\ stack' = [stack EXCEPT ![Len(stack)] = NUMBER_VAL(0 - peek(VM, 0).n)]
         ELSE /\ result' = "INTERPRET_RUNTIME_ERROR"
              /\ message' = "Operand must be a number."]_vars

\* The VM after GET_PROPERTY name on the receiver under the argCount
\* topmost values, followed (when it raised no error) by those values pushed
\* again and CALL argCount.
GetPropertyThenCall(name, argCount) ==
  LET arguments == SubSeq(stack, Len(stack) - argCount + 1, Len(stack))
      m1 == OP_GET_PROPERTY(READ_BYTE(drop(VM, argCount)), name)
  IN IF m1.result # "RUNNING" THEN m1
     ELSE OP_CALL(READ_BYTE([m1 EXCEPT !.stack = @ \o arguments]),
                  argCount, NUMBER_VAL(0))

\* C21: INVOKE name argCount on an instance receiver leaves the value stack,
\* the frames, the instances, the result and the error message that
\* GET_PROPERTY name on the receiver followed by CALL argCount with the same
\* arguments leaves, whether name is a field or a method of the class.
C21_InvokeIsGetPropertyThenCall ==
  [][\A name \in PropertyNames, argCount \in ArgCounts :
       InvokeStep(name, argCount) /\ IS_INSTANCE(peek(VM, argCount)) =>
         LET m == GetPropertyThenCall(name, argCount)
         IN /\ stack' = m.stack
            /\ frames' = m.frames
            /\ instances' = m.instances
            /\ result' = m.result
            /\ message' = m.message]_vars

\* The closure in field "m" of the instance has been entered, and it, not
\* the instance, is in slot 0 of its frame.
C21_Witness ==
  /\ program = "fields"
  /\ result = "RUNNING" /\ Len(frames) = 2 /\ frame(VM).ip = "current"
  /\ globals["a"] = InstanceVal(1)
  /\ Len(instances) = 1
  /\ IS_CLOSURE(instances[1].fields["m"])
  /\ tableGet(classes[instances[1].klass].methods, "m") = Absent
  /\ frame(VM).closure = instances[1].fields["m"]
  /\ stack[stackStart(VM)] = instances[1].fields["m"]
  /\ Len(stack) = stackStart(VM)

----------------------------------------------------------------------------
(* Properties of the scanner. *)

\* C16: a scanToken() call made after a call that returned TOKEN_EOF
\* returns TOKEN_EOF again, of length 0 and on the same line, and leaves
\* scanner.start, scanner.current and scanner.line as they were.
C16_EofIsFinal ==
  [][token.type = "TOKEN_EOF" /\ DoScanToken =>
       /\ token'.type = "TOKEN_EOF"
       /\ token'.length = 0
       /\ token'.line = token.line
       /\ scanner' = scanner]_vars

\* More calls than the source has characters, plus two: TOKEN_EOF has been
\* returned twice at least, here after a newline and other text.
C16_Witness ==
  /\ token.type = "TOKEN_EOF"
  /\ calls >= Len(source) + 2
  /\ scanner.line > 1
  /\ scanner.current = Len(source) + 1
  /\ \E i \in 1..Len(source) : source[i] \notin {" ", "\n"}

\* The text of the last token, for a token that points into the source.
Lexeme == SubSeq(source, token.start.at, token.start.at + token.length - 1)

AllDigits(text) == text # <<>> /\ \A i \in 1..Len(text) : isDigit(text[i])

Decimal(text) ==
  \/ AllDigits(text)
  \/ \E i \in 2..(Len(text) - 1) :
       /\ text[i] = "."
       /\ AllDigits(SubSeq(text, 1, i - 1))
       /\ AllDigits(SubSeq(text, i + 1, Len(text)))

Hexadecimal(text) ==
  /\ Len(text) >= 3
  /\ text[1] = "0" /\ text[2] \in {"x", "X"}
  /\ \A i \in 3..Len(text) : isDigit(text[i]) \/ isHex(text[i])

\* C17: the text of every TOKEN_NUMBER is decimal digits, optionally
\* followed by a dot and decimal digits, or 0x / 0X followed by at least one
\* hex digit.
C17_NumberLexemeShape ==
  token.type = "TOKEN_NUMBER" => Decimal(Lexeme) \/ Hexadecimal(Lexeme)

\* The token's text view lies in the source (the terminating NUL is the last
\* place a view can start, with length 0).
SliceOfSource(t) ==
  /\ t.start.in = "source"
  /\ t.start.at \in 1..(Len(source) + 1)
  /\ t.length >= 0
  /\ t.start.at + t.length <= Len(source) + 1

\* C18 as stated: the token a scanToken() call returns, whatever its type,
\* views a slice of the source, which starts at or after the end of the
\* slice of the token returned before.
C18_EveryTokenIsSourceSlice ==
  [][DoScanToken =>
       /\ SliceOfSource(token')
       /\ token.type # "none" =>
            token.start.at + token.length <= token'.start.at]_vars

\* C18 amended: a token of any type but TOKEN_ERROR views the slice of the
\* source from scanner.start up to scanner.current, and a TOKEN_ERROR views
\* one of the two messages, not the source; each call leaves scanner.start
\* at or after the scanner.current the call before left, so the slices of
\* the tokens (and the text the error tokens stand for) are in source order
\* and do not overlap.
C18_TokensButErrorsAreSourceSlices ==
  [][DoScanToken =>
       /\ IF token'.type = "TOKEN_ERROR"
            THEN /\ token'.start.in \in {"Unterminated string.",
                                         "Unexpected character."}
                 /\ token'.length = strlen(token'.start.in)
            ELSE /\ SliceOfSource(token')
                 /\ token'.start.at = scanner'.start
                 /\ token'.start.at + token'.length = scanner'.current
       /\ scanner.current <= scanner'.start
       /\ scanner'.start <= scanner'.current
       /\ scanner'.current <= Len(source) + 1]_vars

\* The number 1 scanned after the error token of '#' and a blank.
C18_Witness ==
  /\ source = <<"#", " ", "1", ".">>
  /\ calls = 2
  /\ token.type = "TOKEN_NUMBER"
  /\ token.start.at = 3 /\ token.length = 1

\* C22: a scanToken() call that returns anything but TOKEN_EOF, error
\* tokens included, leaves scanner.current at least one character further;
\* scanner.current is never past the terminating NUL; and on every source
\* the calls reach TOKEN_EOF, after one call more than the source has
\* characters at the latest.
C22_ScannerProgresses ==
  /\ [][DoScanToken /\ token'.type # "TOKEN_EOF" =>
          scanner'.current >= scanner.current + 1]_vars
  /\ [](scanner.current \in 1..(Len(source) + 1))
  /\ [](calls >= Len(source) + 1 => token.type = "TOKEN_EOF")
  /\ <>(token.type = "TOKEN_EOF")

\* TOKEN_EOF on the third call, after the error tokens of an unknown
\* character and of an unterminated string.
C22_Witness ==
  /\ source = <<"#", "\"", "a">>
  /\ calls = 3
  /\ token.type = "TOKEN_EOF"
  /\ scanner.current = 4

====
